---- MODULE Spec2Model ----
(***************************************************************************)
(* Client-side state machines of the Knowledge Fabric studio:              *)
(*   - FabricProvider  (src/src/context/FabricContext.tsx): the fabric     *)
(*     registry cache, its mutating calls and its 3 s status poller;       *)
(*   - FabricDetailDrawer (src/src/pages/Fabrics/FabricDetailDrawer.tsx):  *)
(*     the drawer's own 2 s poller and its rebuild / go-to-chat handlers;  *)
(*   - ChatProvider (src/src/context/ChatContext.tsx) and ChatPage         *)
(*     (src/src/pages/Fabrics/FabricsPage.tsx:153-365): the chat session.  *)
(* React state is modelled by one variable per useState cell.  A state     *)
(* update, the re-render it causes and the effects of that render are one  *)
(* atomic step; every await is a suspension point: the request sits in     *)
(* reqs / chatReqs until the server has handled it and its response is     *)
(* delivered, in any order (the in-flight requests form a bag).  A         *)
(* handler's closure values (the state it read when it was called) travel  *)
(* with its request.                                                       *)
(***************************************************************************)
EXTENDS Integers, Sequences, FiniteSets, Bags

VARIABLES
    backend,          \* server registry: fabric id -> status, or Absent
    fabrics,          \* FabricProvider.fabrics: fabric id -> status, or Absent
    selectedFabricId, \* FabricProvider.selectedFabricId
    loading,          \* FabricProvider.loading
    error,            \* FabricProvider.error is non-null
    pollInterval,     \* FabricProvider's setInterval(…, 3000) is active
    isOpen,           \* the page's isDetailDrawerOpen, the drawer's isOpen prop
    currentFabric,    \* FabricDetailDrawer.currentFabric: [id, status], or NoFabric
    drawerInterval,   \* FabricDetailDrawer's setInterval(…, 2000) is active
    route,            \* the route react-router shows
    reqs,             \* fabric API requests in flight (a bag: any may answer next)
    settled,          \* history: a list() delivered a fabric set with nothing
                      \* building while nothing was building or about to, and
                      \* no build was triggered since
    conversationId,   \* ChatProvider.conversationId
    messages,         \* ChatProvider.messages
    selectedLLMId,    \* ChatProvider.selectedLLMId
    isSending,        \* ChatProvider.isSending
    inputValue,       \* ChatPage.inputValue
    chatReqs,         \* /api/chat requests in flight (a bag)
    sendOutcome,      \* how the sendMessage call that returned last ended
    conversation,     \* history: the fabricId and llmId of the first request
                      \* posted since construction or the last resetChat
    temperature,      \* ChatProvider.temperature, in tenths
    maxTokens,        \* ChatProvider.maxTokens
    activeWizard,     \* the wizard that is open, or "none"
    wizards,          \* per wizard: its form fields, loading, and the
                      \* handleCreate call it has in flight
    toast             \* the toast shown last: [by, text], by the call that showed it

fabricVars == <<backend, fabrics, selectedFabricId, loading, error, pollInterval,
                isOpen, currentFabric, drawerInterval, route, reqs, settled>>

chatVars == <<conversationId, messages, selectedLLMId, isSending, inputValue,
              chatReqs, sendOutcome, conversation>>

settingVars == <<temperature, maxTokens>>

wizardVars == <<activeWizard, wizards, toast>>

extraVars == <<settingVars, wizardVars>>

vars == <<fabricVars, chatVars, extraVars>>

\* ---------------------------------------------------------------- bounds
\* Fabric API requests in flight at once.
MaxInFlight == 2

\* /api/chat requests in flight at once.
MaxSends == 2

\* sendMessage is not called on a log of this length or longer.
MaxLog == 2

\* handleCreate calls of the wizards running at once.
MaxCreates == 1

\* ------------------------------------------------------------- data model
FabricIds == {"f1", "f2"}

Null == "null"

Absent == "Absent"

FabricStatus ==
    {"Draft", "Ingesting", "Chunking", "Vectorizing", "GraphBuilding", "Ready", "Error"}

FabricSets == [FabricIds -> FabricStatus \cup {Absent}]

NoFabrics == [f \in FabricIds |-> Absent]

\* A null Fabric reference (the drawer's fabric prop when nothing is shown).
NoFabric == [id |-> Null, status |-> Absent]

Routes == {"/fabrics", "/available-fabrics", "/chat"}

\* The value of route once <App/> has been unmounted.
Unmounted == "unmounted"

\* isBuilding as it would be had the filter forgotten the Draft status.
isBuildingNoDraft(status) == status # "Ready" /\ status # "Error"

\* The status test the provider effect, the drawer effect and the list share.
isBuilding(status) == status # "Ready" /\ status # "Error" /\ status # "Draft"

buildingFabrics(fs) == {f \in FabricIds : fs[f] # Absent /\ isBuilding(fs[f])}

readyFabrics(fs) == {f \in FabricIds : fs[f] = "Ready"}

\* -------------------------------------------------------------- requests
\* op: "list" | "build" | "delete".  silent: reloadFabrics' argument.
\* sel: the selectedFabricId the handler's closure holds (delete only).
\* caller: the code awaiting the call: "mount" (the mount effect),
\*   "interval" (the provider's timer), "drawerInterval" (the drawer's timer),
\*   "triggerBuild" (handleRebuild -> triggerBuild, and the reload inside it),
\*   "handleRebuild" (handleRebuild's own reload), "deleteFabric";
\*   "cleared interval", "cleared drawerInterval": that timer, cleared since.
\* result: "pending", "ok" or "err"; data: the fabric set a list() returns.
Req(op, id, silent, sel, caller) ==
    [op |-> op, id |-> id, silent |-> silent, sel |-> sel, caller |-> caller,
     result |-> "pending", data |-> NoFabrics]

InFlight == BagCardinality(reqs)

\* The requests q after clearInterval on timers: an effect's cleanup does
\* not cancel what the cleared timer has in flight.
ClearTimers(q, timers) ==
    LET cleared(t) == IF t = "interval" THEN "cleared interval"
                                         ELSE "cleared drawerInterval"
        d(r) == IF r.caller \in timers THEN [r EXCEPT !.caller = cleared(r.caller)] ELSE r
        S == {d(r) : r \in BagToSet(q)}
    IN  [x \in S |-> BagCardinality([r \in {y \in BagToSet(q) : d(y) = x} |-> q[r]])]

Add(q, r) == q (+) SetToBag({r})

Remove(q, r) == q (-) SetToBag({r})

Replace(q, r, r2) == Add(Remove(q, r), r2)

\* ------------------------------------------------------------- chat data
\* The ids of ChatPage.LLM_OPTIONS (the first two of its four).
LLMIds == {"gpt-4.1", "gpt-4.1-mini"}

\* What the textarea may hold: nothing, blanks only, a question.
InputValues == {"", " ", "q"}

\* String.prototype.trim on those values.
trim(v) == IF v = " " THEN "" ELSE v

\* JavaScript truthiness of a string | null.
Truthy(v) == v # Null /\ v # ""

\* What sendMessage is called with: a question.
Contents == {"q"}

ConversationIds == {"c1", "c2"}

userMessage(content) == [role |-> "user", content |-> content]

\* The synthetic assistant message of the catch block.
errorMessage == [role |-> "assistant", content |-> "Error: Failed to send message"]

\* An assistant turn generated by the backend.
assistantMessage == [role |-> "assistant", content |-> "answer"]

\* A sendMessage call suspended at its await: the ChatRequest it posted
\* (messages, fabricId, llmId), its closure (content, and pre: the messages
\* the call read) and the code awaiting it ("handleSend": ChatPage.handleSend;
\* "detached": a handleSend whose page has unmounted; "api": another consumer
\* of the context).
ChatReq(content, pre, updatedMessages, fabricId, llmId, caller) ==
    [content |-> content, pre |-> pre, messages |-> updatedMessages,
     fabricId |-> fabricId, llmId |-> llmId, caller |-> caller]

\* The logs the backend may answer a request with: the log it was sent plus
\* its assistant turn, or the assistant turn alone.
ServerLogs(r) == {Append(r.messages, assistantMessage), <<assistantMessage>>}

\* The ChatResponses the backend may answer a request with.  The request
\* carries no conversation id, so the id is the server's choice each time.
ChatResponses(r) ==
    {[messages |-> log, conversationId |-> c] : log \in ServerLogs(r), c \in ConversationIds}

\* The continuations of an unmounted ChatPage set state on a dead component.
Detach(q) ==
    LET d(r) == IF r.caller = "handleSend" THEN [r EXCEPT !.caller = "detached"] ELSE r
        S == {d(r) : r \in BagToSet(q)}
    IN  [x \in S |-> BagCardinality([r \in {y \in BagToSet(q) : d(y) = x} |-> q[r]])]

ChatInFlight == BagCardinality(chatReqs)

\* No request has been posted since construction or the last resetChat.
NoConversation == [fabricId |-> Null, llmId |-> Null]

\* useState(0.7), in tenths.
DefaultTemperature == 7

\* useState(2000)
DefaultMaxTokens == 2000

\* ----------------------------------------------------------- wizard data
\* FabricWizard, ServiceNowWizard, SharePointWizard.
WizardKinds == {"generic", "servicenow", "sharepoint"}

\* useState(512)
DefaultChunkSize == 512

\* useState(64)
DefaultChunkOverlap == 64

\* The CreateFabricPayload fields the claims read.
Payload(name, chromaCollection, chunkSize, chunkOverlap) ==
    [name |-> name, chromaCollection |-> chromaCollection,
     chunkSize |-> chunkSize, chunkOverlap |-> chunkOverlap]

NoPayload == Payload("", "", 0, 0)

\* A wizard as constructed or after handleClose, with no handleCreate call
\* running.  sourceUrl is instanceUrl (ServiceNow) or siteUrl (SharePoint).
\* pc is the await the running handleCreate call is suspended at ("idle":
\* none); payload and id are the call's payload and newFabric.id; detached:
\* the page the call belongs to has been unmounted.
FreshWizard ==
    [name |-> "", chromaCollection |-> "", sourceUrl |-> "",
     chunkSize |-> DefaultChunkSize, chunkOverlap |-> DefaultChunkOverlap,
     loading |-> FALSE, credentialsConfigured |-> Null,
     pc |-> "idle", payload |-> NoPayload, id |-> Null, detached |-> FALSE]

NoToast == [by |-> "none", text |-> ""]

Toast(k, text) == [by |-> k, text |-> text]

\* The message of the error a failed request rejects with (axios: no
\* response reached the client).
ErrorMessage == "Network Error"

\* JavaScript's a || b on strings.
OrElse(a, b) == IF a = "" THEN b ELSE a

\* The toasts handleConfirmDelete ends with.
DeletedToast == "Fabric deleted successfully"

\* handleDeleteFabric's catch, then handleConfirmDelete's.
deleteError(msg) == OrElse(OrElse(msg, "Failed to delete fabric"), "Failed to delete fabric")

\* ------------------------------------------------------------ the server
\* The registry behind /api/fabrics.  A build moves through the stages in
\* order and may fail from any of them.
NextStage(status) ==
    CASE status = "Ingesting" -> "Chunking"
      [] status = "Chunking" -> "Vectorizing"
      [] status = "Vectorizing" -> "GraphBuilding"
      [] status = "GraphBuilding" -> "Ready"
      [] OTHER -> status

clientVars == <<fabrics, selectedFabricId, loading, error, pollInterval,
                isOpen, currentFabric, drawerInterval, route>>

BackendAdvance(f) ==
    /\ backend[f] # Absent
    /\ isBuilding(backend[f])
    /\ backend' = [backend EXCEPT ![f] = NextStage(backend[f])]
    /\ UNCHANGED <<extraVars, chatVars, clientVars, reqs, settled>>

BackendFail(f) ==
    /\ backend[f] # Absent
    /\ isBuilding(backend[f])
    /\ backend' = [backend EXCEPT ![f] = "Error"]
    /\ UNCHANGED <<extraVars, chatVars, clientVars, reqs, settled>>

\* GET /api/fabrics answers with the registry as it is now, or fails.
ServerList(r) ==
    /\ r.op = "list"
    /\ r.result = "pending"
    /\ \/ reqs' = Replace(reqs, r, [r EXCEPT !.result = "ok", !.data = backend])
       \/ reqs' = Replace(reqs, r, [r EXCEPT !.result = "err"])
    /\ UNCHANGED <<extraVars, chatVars, backend, clientVars, settled>>

\* POST /api/fabrics/:id/build (re)starts the pipeline of a known fabric.
ServerBuild(r) ==
    /\ r.op = "build"
    /\ r.result = "pending"
    /\ \/ /\ backend[r.id] # Absent
          /\ backend' = [backend EXCEPT ![r.id] = "Ingesting"]
          /\ reqs' = Replace(reqs, r, [r EXCEPT !.result = "ok"])
       \/ /\ reqs' = Replace(reqs, r, [r EXCEPT !.result = "err"])
          /\ UNCHANGED backend
    /\ UNCHANGED <<extraVars, chatVars, clientVars, settled>>

\* DELETE /api/fabrics/:id removes a known fabric.
ServerDelete(r) ==
    /\ r.op = "delete"
    /\ r.result = "pending"
    /\ \/ /\ backend[r.id] # Absent
          /\ backend' = [backend EXCEPT ![r.id] = Absent]
          /\ reqs' = Replace(reqs, r, [r EXCEPT !.result = "ok"])
       \/ /\ reqs' = Replace(reqs, r, [r EXCEPT !.result = "err"])
          /\ UNCHANGED backend
    /\ UNCHANGED <<extraVars, chatVars, clientVars, settled>>

\* -------------------------------------------------------- FabricProvider
\* The poll effect (deps [fabrics]): after fabrics becomes fs, the old
\* interval is cleared and a new one runs iff some fabric is building.
PollEffect(fs) == buildingFabrics(fs) # {}

\* reloadFabrics as it would be had it set loading also when silent.
reloadFabricsLoud(q, silent, caller) ==
    /\ loading' = TRUE
    /\ error' = FALSE
    /\ reqs' = Add(IF ~loading \/ error THEN ClearTimers(q, {"drawerInterval"}) ELSE q,
                   Req("list", Null, silent, Null, caller))

\* reloadFabrics up to its await; q is the request queue it is added to.
\* When loading or error changes the provider renders again, with a new
\* reloadFabrics: the drawer's poll effect, which depends on it, clears its
\* timer and sets a new one.
reloadFabrics(q, silent, caller) ==
    /\ loading' = (IF silent THEN loading ELSE TRUE)
    /\ error' = FALSE
    /\ reqs' = Add(IF (~silent /\ ~loading) \/ error
                      THEN ClearTimers(q, {"drawerInterval"})
                      ELSE q,
                   Req("list", Null, silent, Null, caller))

\* The provider's interval callback: reloadFabrics(true).
ProviderTick ==
    /\ pollInterval
    /\ InFlight < MaxInFlight
    /\ reloadFabrics(reqs, TRUE, "interval")
    /\ UNCHANGED <<extraVars, chatVars, backend, fabrics, selectedFabricId, pollInterval,
                   isOpen, currentFabric, drawerInterval, route, settled>>

\* selectFabric
selectFabric(id) == selectedFabricId' = id

\* Nothing is building on the server and no build request is on its way.
Quiescent ==
    /\ buildingFabrics(backend) = {}
    /\ \A q \in BagToSet(reqs) : q.op # "build"

\* reloadFabrics after its await, for the response to request r, followed by
\* what awaited it: handleRebuild's own reloadFabrics() after triggerBuild,
\* handleConfirmDelete's success toast after deleteFabric.
\* setFabrics installs a new array: both poll effects run again, each
\* clearing its timer.
DeliverList(r) ==
    LET q == ClearTimers(Remove(reqs, r), {"interval", "drawerInterval"})
        ok == r.result = "ok"
        data == IF ok THEN r.data ELSE NoFabrics
    IN  /\ r.op = "list"
        /\ r.caller \notin WizardKinds
        /\ r.result # "pending"
        /\ fabrics' = data
        /\ pollInterval' = PollEffect(data)
        /\ settled' = (settled \/ (ok /\ buildingFabrics(data) = {} /\ Quiescent))
        /\ IF r.caller = "triggerBuild"
              THEN reloadFabrics(q, FALSE, "handleRebuild")
              ELSE /\ loading' = (IF r.silent THEN loading ELSE FALSE)
                   /\ error' = (IF ok THEN error ELSE TRUE)
                   /\ reqs' = q
        /\ toast' = (IF r.caller = "deleteFabric" THEN Toast(r.caller, DeletedToast) ELSE toast)
        /\ UNCHANGED <<settingVars, activeWizard, wizards, chatVars, backend, selectedFabricId,
                       isOpen, currentFabric, drawerInterval, route>>

\* triggerBuild after its await.
DeliverBuild(r) ==
    LET q == Remove(reqs, r)
    IN  /\ r.op = "build"
        /\ r.caller \notin WizardKinds
        /\ r.result # "pending"
        /\ IF r.result = "ok"
              THEN reloadFabrics(q, FALSE, r.caller)
              ELSE /\ reqs' = q
                   /\ UNCHANGED <<loading, error>>
        /\ UNCHANGED <<extraVars, chatVars, backend, fabrics, selectedFabricId, pollInterval,
                       isOpen, currentFabric, drawerInterval, route, settled>>

\* handleDeleteFabric after its await: the selection it compares with is the
\* one its closure captured when it was called.
DeleteClearsSelection(r) == r.sel = r.id

\* A handleDeleteFabric that takes the fabric out of the set itself instead
\* of reloading.
DeliverDeleteLocal(r) ==
    LET q == Remove(reqs, r)
    IN  /\ r.op = "delete"
        /\ r.result # "pending"
        /\ reqs' = q
        /\ IF r.result = "ok"
              THEN /\ selectedFabricId' =
                        (IF DeleteClearsSelection(r) THEN Null ELSE selectedFabricId)
                   /\ fabrics' = [fabrics EXCEPT ![r.id] = Absent]
              ELSE UNCHANGED <<selectedFabricId, fabrics>>
        /\ UNCHANGED <<extraVars, chatVars, backend, loading, error, pollInterval, isOpen,
                       currentFabric, drawerInterval, route, settled>>

DeliverDelete(r) ==
    LET q == Remove(reqs, r)
    IN  /\ r.op = "delete"
        /\ r.result # "pending"
        /\ IF r.result = "ok"
              THEN /\ selectedFabricId' =
                        (IF DeleteClearsSelection(r) THEN Null ELSE selectedFabricId)
                   /\ reloadFabrics(IF DeleteClearsSelection(r) /\ selectedFabricId # Null
                                       THEN ClearTimers(q, {"drawerInterval"})
                                       ELSE q,
                                    FALSE, r.caller)
                   /\ UNCHANGED toast
              ELSE /\ reqs' = q
                   /\ toast' = Toast(r.caller, deleteError(ErrorMessage))
                   /\ UNCHANGED <<selectedFabricId, loading, error>>
        /\ UNCHANGED <<settingVars, activeWizard, wizards, chatVars, backend, fabrics,
                       pollInterval, isOpen, currentFabric, drawerInterval, route, settled>>

\* ------------------------------------------------------------ navigation
\* A wizard of an unmounted page: its state is gone, a handleCreate call it
\* has running goes on, setting state on the unmounted component.
Unmount(w) ==
    [FreshWizard EXCEPT !.pc = w.pc, !.payload = w.payload, !.id = w.id,
                        !.detached = (w.pc # "idle")]

\* The credentials check of the effect of an unmounted ServiceNowWizard.
DetachOnOpen(q) ==
    LET d(r) == IF r.op = "credentialsOnOpen" THEN [r EXCEPT !.caller = "detached"] ELSE r
        S == {d(r) : r \in BagToSet(q)}
    IN  [x \in S |-> BagCardinality([r \in {y \in BagToSet(q) : d(y) = x} |-> q[r]])]

\* Leaving a route unmounts its page: the page's drawer state is dropped and
\* the drawer's interval is cleared by the effect's cleanup.
Navigate(r) ==
    /\ route \in Routes
    /\ r # route
    /\ route' = r
    /\ isOpen' = FALSE
    /\ currentFabric' = NoFabric
    /\ drawerInterval' = FALSE
    /\ inputValue' = ""
    /\ chatReqs' = Detach(chatReqs)
    /\ activeWizard' = "none"
    /\ wizards' = [k \in WizardKinds |-> Unmount(wizards[k])]
    /\ reqs' = ClearTimers(DetachOnOpen(reqs), {"drawerInterval"})
    /\ UNCHANGED <<settingVars, toast, backend, fabrics, selectedFabricId, loading, error,
                   pollInterval, settled, conversationId, messages,
                   selectedLLMId, isSending, sendOutcome, conversation>>

\* <App/> is unmounted while no request is in flight: the cleanup of every
\* effect runs (clearInterval for both poll timers) and the state of every
\* component is gone.
AppUnmount ==
    /\ route \in Routes
    /\ reqs = EmptyBag /\ chatReqs = EmptyBag
    /\ route' = Unmounted
    /\ pollInterval' = FALSE
    /\ drawerInterval' = FALSE
    /\ fabrics' = NoFabrics
    /\ selectedFabricId' = Null
    /\ loading' = FALSE
    /\ error' = FALSE
    /\ isOpen' = FALSE
    /\ currentFabric' = NoFabric
    /\ conversationId' = Null
    /\ messages' = <<>>
    /\ selectedLLMId' = Null
    /\ isSending' = FALSE
    /\ inputValue' = ""
    /\ temperature' = DefaultTemperature
    /\ maxTokens' = DefaultMaxTokens
    /\ activeWizard' = "none"
    /\ wizards' = [k \in WizardKinds |-> FreshWizard]
    /\ UNCHANGED <<backend, reqs, settled, chatReqs, sendOutcome, conversation, toast>>

\* ---------------------------------------- FabricList (AvailableFabricsPage)
\* The list renders its cards only when not loading; the open drawer's
\* backdrop covers them.
ListShown == route = "/available-fabrics" /\ ~loading /\ ~isOpen

\* The drawer's poll effect (deps [isOpen, currentFabric?.status, reloadFabrics]).
DrawerEffect(open, cf) == open /\ cf # NoFabric /\ isBuilding(cf.status)

\* handleViewDetails: the page keeps the Fabric object of the card clicked;
\* the drawer copies it into currentFabric.
handleViewDetails(f) ==
    /\ ListShown
    /\ fabrics[f] # Absent
    /\ isOpen' = TRUE
    /\ currentFabric' = [id |-> f, status |-> fabrics[f]]
    /\ drawerInterval' = DrawerEffect(TRUE, [id |-> f, status |-> fabrics[f]])
    /\ UNCHANGED <<extraVars, chatVars, backend, fabrics, selectedFabricId, loading, error,
                   pollInterval, route, reqs, settled>>

\* FabricList.handleGoToChat, behind the button enabled for Ready fabrics.
ListGoToChat(f) ==
    /\ ListShown
    /\ fabrics[f] = "Ready"
    /\ selectFabric(f)
    /\ route' = "/chat"
    /\ UNCHANGED <<extraVars, chatVars, backend, fabrics, loading, error, pollInterval, isOpen,
                   currentFabric, drawerInterval, reqs, settled>>

\* handleConfirmDelete -> deleteFabric(id), up to its await.  The dialog
\* stays up until the call settles; it covers the cards for the pointer
\* only, and deletingId is dropped when the list is unmounted.
handleConfirmDelete(f) ==
    /\ ListShown
    /\ fabrics[f] # Absent
    /\ InFlight < MaxInFlight
    /\ reqs' = Add(reqs, Req("delete", f, FALSE, selectedFabricId, "deleteFabric"))
    /\ UNCHANGED <<extraVars, chatVars, backend, clientVars, settled>>

\* ---------------------------------------------------- FabricDetailDrawer
\* onClose as it would be had the drawer's poll effect no cleanup.
onCloseKeepingTimer ==
    /\ isOpen
    /\ isOpen' = FALSE
    /\ currentFabric' = NoFabric
    /\ UNCHANGED <<extraVars, chatVars, backend, fabrics, selectedFabricId, loading, error,
                   pollInterval, drawerInterval, route, reqs, settled>>

\* onClose: the page sets isDetailDrawerOpen false and selectedFabric null.
\* currentFabric is overwritten from the fabric prop when the drawer is next
\* opened, before any tick can read it.
onClose ==
    /\ isOpen
    /\ isOpen' = FALSE
    /\ currentFabric' = NoFabric
    /\ drawerInterval' = FALSE
    /\ reqs' = ClearTimers(reqs, {"drawerInterval"})
    /\ UNCHANGED <<extraVars, chatVars, backend, fabrics, selectedFabricId, loading, error,
                   pollInterval, route, settled>>

\* The drawer's interval callback: reloadFabrics(true).
DrawerTick ==
    /\ drawerInterval
    /\ InFlight < MaxInFlight
    /\ reloadFabrics(reqs, TRUE, "drawerInterval")
    /\ UNCHANGED <<extraVars, chatVars, backend, fabrics, selectedFabricId, pollInterval,
                   isOpen, currentFabric, drawerInterval, route, settled>>

\* handleRebuild -> triggerBuild(currentFabric.id), up to its await.
handleRebuild ==
    /\ isOpen
    /\ currentFabric # NoFabric
    /\ InFlight < MaxInFlight
    /\ reqs' = Add(reqs, Req("build", currentFabric.id, FALSE, Null, "triggerBuild"))
    /\ settled' = FALSE
    /\ UNCHANGED <<extraVars, chatVars, backend, clientVars>>

\* handleGoToChat, behind the button enabled when currentFabric is Ready.
handleGoToChat ==
    /\ isOpen
    /\ currentFabric.status = "Ready"
    /\ selectFabric(currentFabric.id)
    /\ route' = "/chat"
    /\ isOpen' = FALSE
    /\ currentFabric' = NoFabric
    /\ drawerInterval' = FALSE
    /\ reqs' = ClearTimers(reqs, {"drawerInterval"})
    /\ UNCHANGED <<extraVars, chatVars, backend, fabrics, loading, error, pollInterval, settled>>

\* -------------------------------------------------- ChatPage fabric select
\* The <select> offers "Select a fabric..." (null) and the Ready fabrics.
ChatSelectFabric(id) ==
    /\ route = "/chat"
    /\ id \in readyFabrics(fabrics) \cup {Null}
    /\ id # selectedFabricId
    /\ selectFabric(id)
    /\ UNCHANGED <<extraVars, chatVars, backend, fabrics, loading, error, pollInterval, isOpen,
                   currentFabric, drawerInterval, route, reqs, settled>>


\* --------------------------------------------------------------- wizards
\* What the Name, Chroma Collection and URL inputs may hold.
Names == {"", "T"}

Collections == {"", "c"}

Urls == {"", "u"}

\* What may be typed into the Chunk Size and Chunk Overlap number inputs.
ChunkInputs == {"", "0", "600"}

NaN == [nan |-> TRUE, n |-> 0]

Num(n) == [nan |-> FALSE, n |-> n]

\* parseInt on those texts.
parseInt(v) ==
    CASE v = "" -> NaN
      [] v = "0" -> Num(0)
      [] v = "-5" -> Num(-5)
      [] v = "3.7" -> Num(3)
      [] v = "600" -> Num(600)

\* parseInt(v) || d: NaN and 0 are falsy.
parseIntOr(v, d) == IF parseInt(v).nan \/ parseInt(v).n = 0 THEN d ELSE parseInt(v).n

\* requiredFilled as it would be had the guard forgotten the collection name.
requiredFilledNameOnly(k) ==
    /\ wizards[k].name # ""
    /\ k # "generic" => wizards[k].sourceUrl # ""

\* handleCreate's guard has passed: !name || !chromaCollection, and
\* || !instanceUrl (ServiceNow), || !siteUrl (SharePoint).  The Create
\* button's disabled attribute repeats the same test.
requiredFilled(k) ==
    /\ wizards[k].name # ""
    /\ wizards[k].chromaCollection # ""
    /\ k # "generic" => wizards[k].sourceUrl # ""

\* The Create button's disabled attribute.
createDisabled(k) ==
    \/ wizards[k].loading
    \/ ~requiredFilled(k)
    \/ k = "servicenow" /\ wizards[k].credentialsConfigured = "no"

\* The toasts a handleCreate call can end with.
PreconditionToast == "Please fill in all required fields"

CredentialsToast == "Please set ServiceNow credentials first"

successToast(k) ==
    IF k = "generic" THEN "Fabric created. Build started."
                     ELSE "Knowledge Fabric created! RAG architecture build started."

BuildFailedToast == "Fabric created but build failed"

\* createNewFabric's catch: new Error(err.message || "Failed to create fabric").
createError(msg) == OrElse(msg, "Failed to create fabric")

\* triggerFabricBuild's and triggerBuild's catch.
buildError(msg) == OrElse(OrElse(msg, "Failed to trigger build"), "Failed to trigger build")

\* The toast of the outer catch block of handleCreate for the error message
\* msg: ServiceNow rewrites network errors, the others show the message.
catchToast(k, msg) ==
    IF k = "servicenow"
       THEN (IF OrElse(msg, "Failed to create fabric") = "Network Error"
                THEN "Network error. Please check your connection"
                ELSE OrElse(msg, "Failed to create fabric"))
       ELSE OrElse(msg, "Failed to create fabric")

\* handleClose's resets of the wizard's own state.
Reset(w) ==
    [w EXCEPT !.name = "", !.chromaCollection = "", !.sourceUrl = "",
              !.chunkSize = DefaultChunkSize, !.chunkOverlap = DefaultChunkOverlap,
              !.credentialsConfigured = Null]

\* The handleCreate call of wizard k ends with the toast text; close: it ends with
\* handleClose().  finally: setLoading(false).  A detached call sets state on
\* an unmounted component.
Finish(k, text, close) ==
    LET w == wizards[k]
        acts == close /\ ~w.detached
        done == [(IF acts THEN Reset(w) ELSE w) EXCEPT
                    !.pc = "idle", !.loading = FALSE, !.payload = NoPayload,
                    !.id = Null, !.detached = FALSE]
    IN  /\ wizards' = [wizards EXCEPT ![k] = done]
        /\ toast' = Toast(k, text)
        /\ activeWizard' = (IF acts THEN "none" ELSE activeWizard)

\* The handleCreate call of wizard k moves on to the await pc.
Await(k, pc) ==
    /\ wizards' = [wizards EXCEPT ![k].pc = pc]
    /\ UNCHANGED <<activeWizard, toast>>

\* The wizards with a handleCreate call running.
ActiveCalls == {k \in WizardKinds : wizards[k].pc # "idle"}

\* A creation option of FabricsPage is clicked (FabricWizard: its parent
\* sets isOpen).  ServiceNowWizard's effect on isOpen checks the credentials.
openWizard(k) ==
    /\ route = "/fabrics"
    /\ activeWizard = "none"
    /\ activeWizard' = k
    /\ IF k = "servicenow"
          THEN /\ InFlight < MaxInFlight
               /\ reqs' = Add(reqs, Req("credentialsOnOpen", Null, FALSE, Null, k))
          ELSE UNCHANGED reqs
    /\ UNCHANGED <<chatVars, settingVars, backend, clientVars, settled, wizards, toast>>

\* handleClose from the backdrop, the X or Cancel.
handleClose(k) ==
    /\ activeWizard = k
    /\ activeWizard' = "none"
    /\ wizards' = [wizards EXCEPT ![k] = Reset(wizards[k])]
    /\ UNCHANGED <<chatVars, settingVars, fabricVars, toast>>

\* An onChange of one of the open wizard's inputs installs field f = v.
setField(k, w) ==
    /\ activeWizard = k
    /\ w # wizards[k]
    /\ wizards' = [wizards EXCEPT ![k] = w]
    /\ UNCHANGED <<chatVars, settingVars, fabricVars, activeWizard, toast>>

setName(k, v) == setField(k, [wizards[k] EXCEPT !.name = v])

setChromaCollection(k, v) == setField(k, [wizards[k] EXCEPT !.chromaCollection = v])

\* setInstanceUrl / setSiteUrl
setSourceUrl(k, v) == k # "generic" /\ setField(k, [wizards[k] EXCEPT !.sourceUrl = v])

\* onChange={(e) => setChunkSize(parseInt(e.target.value) || 512)}
setChunkSize(k, v) ==
    setField(k, [wizards[k] EXCEPT !.chunkSize = parseIntOr(v, DefaultChunkSize)])

\* onChange={(e) => setChunkOverlap(parseInt(e.target.value) || 64)}
setChunkOverlap(k, v) ==
    setField(k, [wizards[k] EXCEPT !.chunkOverlap = parseIntOr(v, DefaultChunkOverlap)])

\* handleCreate up to its first await: checkServiceNowCredentials in
\* ServiceNowWizard, createNewFabric(payload) -> createFabric in the others.
handleCreate(k) ==
    LET w == wizards[k]
        payload == Payload(w.name, w.chromaCollection, w.chunkSize, w.chunkOverlap)
    IN  /\ w.pc = "idle"
        /\ IF ~requiredFilled(k)
              THEN /\ toast' = Toast(k, PreconditionToast)
                   /\ UNCHANGED <<reqs, wizards>>
              ELSE /\ UNCHANGED toast
                   /\ InFlight < MaxInFlight
                   /\ Cardinality(ActiveCalls) < MaxCreates
                   /\ IF k = "servicenow"
                         THEN /\ wizards' = [wizards EXCEPT ![k].pc = "credentials",
                                                            ![k].payload = payload]
                              /\ reqs' = Add(reqs, Req("credentials", Null, FALSE, Null, k))
                         ELSE /\ wizards' = [wizards EXCEPT ![k].pc = "create",
                                                            ![k].payload = payload,
                                                            ![k].loading = TRUE]
                              /\ reqs' = Add(reqs, Req("create", Null, FALSE, Null, k))
        /\ UNCHANGED <<chatVars, settingVars, backend, clientVars, settled, activeWizard>>

\* The Create button's onClick.
ClickCreate(k) == activeWizard = k /\ ~createDisabled(k) /\ handleCreate(k)

\* GET /api/connections/servicenow/credentials: configured, not, or failure.
ServerCredentials(r) ==
    /\ r.op \in {"credentials", "credentialsOnOpen"}
    /\ r.result = "pending"
    /\ \E res \in {"ok", "no", "err"} : reqs' = Replace(reqs, r, [r EXCEPT !.result = res])
    /\ UNCHANGED <<chatVars, extraVars, backend, clientVars, settled>>

\* POST /api/fabrics stores the fabric as a Draft under a new id, or fails.
ServerCreate(r) ==
    /\ r.op = "create"
    /\ r.result = "pending"
    /\ \/ \E f \in FabricIds :
             /\ backend[f] = Absent
             /\ backend' = [backend EXCEPT ![f] = "Draft"]
             /\ reqs' = Replace(reqs, r, [r EXCEPT !.result = "ok", !.id = f])
       \/ /\ reqs' = Replace(reqs, r, [r EXCEPT !.result = "err"])
          /\ UNCHANGED backend
    /\ UNCHANGED <<chatVars, extraVars, clientVars, settled>>

\* The effect's then / catch: setCredentialsConfigured.
DeliverCredentialsOnOpen(r) ==
    /\ r.op = "credentialsOnOpen"
    /\ r.result # "pending"
    /\ reqs' = Remove(reqs, r)
    /\ wizards' = (IF r.caller = "detached"
                      THEN wizards
                      ELSE [wizards EXCEPT !["servicenow"].credentialsConfigured =
                                               (IF r.result = "ok" THEN "yes" ELSE "no")])
    /\ UNCHANGED <<chatVars, settingVars, backend, clientVars, settled, activeWizard, toast>>

\* ServiceNowWizard.handleCreate after its credentials check.  A rejected
\* check is outside the try block: the call ends without a toast.
DeliverCredentials(r) ==
    LET k == r.caller
        q == Remove(reqs, r)
        w == wizards[k]
    IN  /\ r.op = "credentials"
        /\ r.result # "pending"
        /\ CASE r.result = "ok" ->
                   /\ wizards' = [wizards EXCEPT ![k].pc = "create",
                                                 ![k].loading = ~w.detached]
                   /\ UNCHANGED toast
                   /\ reqs' = Add(q, Req("create", Null, FALSE, Null, k))
             [] r.result = "no" ->
                   /\ wizards' = [wizards EXCEPT ![k] =
                          [w EXCEPT !.pc = "idle", !.payload = NoPayload, !.detached = FALSE,
                                    !.credentialsConfigured =
                                        IF w.detached THEN w.credentialsConfigured ELSE "no"]]
                   /\ toast' = Toast(k, CredentialsToast)
                   /\ reqs' = q
             [] r.result = "err" ->
                   /\ wizards' = [wizards EXCEPT ![k] =
                          [w EXCEPT !.pc = "idle", !.payload = NoPayload, !.detached = FALSE]]
                   /\ toast' = Toast(k, "unhandled rejection")
                   /\ reqs' = q
        /\ UNCHANGED <<chatVars, settingVars, backend, clientVars, settled, activeWizard>>

\* createNewFabric after its await: reloadFabrics() on success, a throw into
\* handleCreate's catch block on failure.
DeliverCreate(r) ==
    LET k == r.caller
        q == Remove(reqs, r)
    IN  /\ r.op = "create"
        /\ r.result # "pending"
        /\ IF r.result = "ok"
              THEN /\ reloadFabrics(q, FALSE, k)
                   /\ wizards' = [wizards EXCEPT ![k].pc = "createReload", ![k].id = r.id,
                                                 ![k].payload = NoPayload]
                   /\ UNCHANGED <<activeWizard, toast>>
              ELSE /\ reqs' = q
                   /\ Finish(k, catchToast(k, createError(ErrorMessage)), FALSE)
                   /\ UNCHANGED <<loading, error>>
        /\ UNCHANGED <<chatVars, settingVars, backend, fabrics, selectedFabricId,
                       pollInterval, isOpen, currentFabric, drawerInterval, route, settled>>

\* triggerBuild after its await, called by a wizard: reloadFabrics() on
\* success; on failure the throw lands in the catch block around it: the
\* inner one of ServiceNowWizard (reloadFabrics(), then the toast), the outer
\* one, shared with createNewFabric, in the others.
WizardDeliverBuild(r) ==
    LET k == r.caller
        q == Remove(reqs, r)
    IN  /\ r.op = "build"
        /\ r.caller \in WizardKinds
        /\ r.result # "pending"
        /\ IF r.result = "ok"
              THEN reloadFabrics(q, FALSE, k) /\ Await(k, "buildReload")
              ELSE IF k = "servicenow"
                      THEN reloadFabrics(q, FALSE, k) /\ Await(k, "failReload")
                      ELSE /\ reqs' = q
                           /\ Finish(k, catchToast(k, buildError(ErrorMessage)), FALSE)
                           /\ UNCHANGED <<loading, error>>
        /\ UNCHANGED <<chatVars, settingVars, backend, fabrics, selectedFabricId,
                       pollInterval, isOpen, currentFabric, drawerInterval, route, settled>>

\* WizardDeliverList as it would be had reloadFabrics re-thrown a failure of
\* list(): the mutating call rejects and handleCreate's catch block ends the
\* call.
WizardDeliverListRejecting(r) ==
    LET k == r.caller
        q == ClearTimers(Remove(reqs, r), {"interval", "drawerInterval"})
        ok == r.result = "ok"
        data == IF ok THEN r.data ELSE NoFabrics
        pc == wizards[k].pc
        again == ok /\ pc = "buildReload" /\ k # "generic"
    IN  /\ r.op = "list"
        /\ r.caller \in WizardKinds
        /\ r.result # "pending"
        /\ fabrics' = data
        /\ pollInterval' = PollEffect(data)
        /\ settled' = (pc # "createReload"
                          /\ (settled \/ (ok /\ buildingFabrics(data) = {} /\ Quiescent)))
        /\ IF again
              THEN reloadFabrics(q, FALSE, k)
              ELSE /\ loading' = FALSE
                   /\ error' = (IF ok THEN error ELSE TRUE)
                   /\ reqs' = (IF ok /\ pc = "createReload"
                                  THEN Add(q, Req("build", wizards[k].id, FALSE, Null, k))
                                  ELSE q)
        /\ CASE ~ok -> Finish(k, catchToast(k, ErrorMessage), FALSE)
             [] pc = "createReload" -> Await(k, "build")
             [] again -> Await(k, "finalReload")
             [] pc = "failReload" -> Finish(k, BuildFailedToast, TRUE)
             [] OTHER -> Finish(k, successToast(k), TRUE)
        /\ UNCHANGED <<chatVars, settingVars, backend, selectedFabricId, isOpen,
                       currentFabric, drawerInterval, route>>

\* reloadFabrics after its await, called within a wizard's handleCreate call,
\* followed by the continuation of that call.
WizardDeliverList(r) ==
    LET k == r.caller
        q == ClearTimers(Remove(reqs, r), {"interval", "drawerInterval"})
        ok == r.result = "ok"
        data == IF ok THEN r.data ELSE NoFabrics
        pc == wizards[k].pc
        again == pc = "buildReload" /\ k # "generic"
    IN  /\ r.op = "list"
        /\ r.caller \in WizardKinds
        /\ r.result # "pending"
        /\ fabrics' = data
        /\ pollInterval' = PollEffect(data)
        /\ settled' = (pc # "createReload"
                          /\ (settled \/ (ok /\ buildingFabrics(data) = {} /\ Quiescent)))
        /\ IF again
              THEN reloadFabrics(q, FALSE, k)
              ELSE /\ loading' = FALSE
                   /\ error' = (IF ok THEN error ELSE TRUE)
                   /\ reqs' = (IF pc = "createReload"
                                  THEN Add(q, Req("build", wizards[k].id, FALSE, Null, k))
                                  ELSE q)
        /\ CASE pc = "createReload" -> Await(k, "build")
             [] again -> Await(k, "finalReload")
             [] pc = "failReload" -> Finish(k, BuildFailedToast, TRUE)
             [] OTHER -> Finish(k, successToast(k), TRUE)
        /\ UNCHANGED <<chatVars, settingVars, backend, selectedFabricId, isOpen,
                       currentFabric, drawerInterval, route>>

\* ---------------------------------------------------------- ChatProvider
setLLMId(llmId) ==
    /\ route = "/chat"
    /\ llmId # selectedLLMId
    /\ selectedLLMId' = llmId
    /\ UNCHANGED <<extraVars, fabricVars, conversationId, messages, isSending, inputValue,
                   chatReqs, sendOutcome, conversation>>

\* The values the temperature slider (type="range", min 0, max 1, step 0.1)
\* can report.
TemperatureInputs == {"0", "0.3", "1"}

\* parseFloat on those texts, in tenths.
parseFloat(v) ==
    CASE v = "0" -> 0
      [] v = "0.3" -> 3
      [] v = "1" -> 10

\* The slider's onChange: setTemperature(parseFloat(e.target.value)).
setTemperature(v) ==
    /\ route = "/chat"
    /\ parseFloat(v) # temperature
    /\ temperature' = parseFloat(v)
    /\ UNCHANGED <<fabricVars, chatVars, maxTokens, wizardVars>>

\* The texts typed into the Max Tokens input (type="number": min, max and
\* step constrain the spinner and form validation, not what is typed).
TokenInputs == {"", "0", "-5", "3.7", "600"}

\* Its onChange: setMaxTokens(parseInt(e.target.value) || 2000).
setMaxTokens(v) ==
    /\ route = "/chat"
    /\ parseIntOr(v, DefaultMaxTokens) # maxTokens
    /\ maxTokens' = parseIntOr(v, DefaultMaxTokens)
    /\ UNCHANGED <<fabricVars, chatVars, temperature, wizardVars>>

\* resetChat: no component of the application calls it; any consumer of the
\* context may.
resetChat ==
    /\ route \in Routes
    /\ messages' = <<>>
    /\ conversationId' = Null
    /\ conversation' = NoConversation
    /\ UNCHANGED <<extraVars, fabricVars, selectedLLMId, isSending, inputValue, chatReqs,
                   sendOutcome>>

\* sendPrecondition as it would be had the guard tested the fabric only.
sendPreconditionFabricOnly == Truthy(selectedFabricId)

\* sendMessage's guard: both a fabric and an LLM are selected.
sendPrecondition == Truthy(selectedFabricId) /\ Truthy(selectedLLMId)

\* sendMessage up to its await.
sendMessage(content, caller) ==
    IF ~sendPrecondition
       THEN /\ sendOutcome' = "PreconditionError"
            /\ UNCHANGED <<conversationId, messages, selectedLLMId, isSending, chatReqs,
                           conversation>>
       ELSE LET updatedMessages == Append(messages, userMessage(content))
            IN  /\ messages' = updatedMessages
                /\ isSending' = TRUE
                /\ chatReqs' = Add(chatReqs, ChatReq(content, messages, updatedMessages,
                                                     selectedFabricId, selectedLLMId, caller))
                /\ conversation' =
                       (IF conversation = NoConversation
                           THEN [fabricId |-> selectedFabricId, llmId |-> selectedLLMId]
                           ELSE conversation)
                /\ UNCHANGED <<conversationId, selectedLLMId, sendOutcome>>

\* onSendSuccess as it would be had the response been appended to the
\* optimistic log.
onSendSuccessMerged(r, response) == r.messages \o response.messages

\* The log sendMessage's try block installs when the response arrives.
onSendSuccess(r, response) == response.messages

\* onSendFailure as it would be had the catch block appended to the log of
\* the moment (a functional setMessages update).
onSendFailureOnCurrent(r) == Append(messages, errorMessage)

\* The log sendMessage's catch block installs: the optimistic log of the
\* call plus one error message.
onSendFailure(r) == Append(r.messages, errorMessage)

\* sendMessage after its await when sendChat resolved with response, and the
\* continuation of handleSend (setInputValue("")).
SendSucceeds(r, response) ==
    /\ messages' = onSendSuccess(r, response)
    /\ conversationId' = response.conversationId
    /\ sendOutcome' = "resolved"
    /\ inputValue' = (IF r.caller = "handleSend" THEN "" ELSE inputValue)
    /\ isSending' = FALSE
    /\ chatReqs' = Remove(chatReqs, r)
    /\ UNCHANGED <<extraVars, fabricVars, selectedLLMId, conversation>>

\* sendMessage after its await when sendChat threw: the error is re-thrown.
SendFails(r) ==
    /\ messages' = onSendFailure(r)
    /\ sendOutcome' = "rejected"
    /\ isSending' = FALSE
    /\ chatReqs' = Remove(chatReqs, r)
    /\ UNCHANGED <<extraVars, fabricVars, conversationId, selectedLLMId, inputValue, conversation>>

\* A consumer of the context calls sendMessage directly.
ApiSendMessage(content) ==
    /\ route \in Routes
    /\ Len(messages) < MaxLog
    /\ ChatInFlight < MaxSends
    /\ sendMessage(content, "api")
    /\ UNCHANGED <<extraVars, fabricVars, inputValue>>

\* ------------------------------------------------------------- ChatPage
setInputValue(v) ==
    /\ route = "/chat"
    /\ v # inputValue
    /\ inputValue' = v
    /\ UNCHANGED <<extraVars, fabricVars, conversationId, messages, selectedLLMId, isSending,
                   chatReqs, sendOutcome, conversation>>

\* handleSend goes on to sendMessage when this holds; otherwise it shows a
\* warning toast and returns, changing nothing.
handleSendGuard ==
    trim(inputValue) # "" /\ Truthy(selectedFabricId) /\ Truthy(selectedLLMId)

\* The Send button's disabled attribute.
sendDisabled == ~handleSendGuard \/ isSending

handleSend ==
    /\ route = "/chat"
    /\ handleSendGuard
    /\ Len(messages) < MaxLog
    /\ ChatInFlight < MaxSends
    /\ sendMessage(inputValue, "handleSend")
    /\ UNCHANGED <<extraVars, fabricVars, inputValue>>

\* The Send button's onClick.
ClickSend == ~sendDisabled /\ handleSend

\* handleKeyPress on Enter without Shift, in the textarea.
PressEnter == handleSend

\* ------------------------------------------------------------------ Spec
\* After construction: the mount effect's reloadFabrics() is in flight.  The
\* registry the server starts with is one of B, the URL opened is rt.
InitWith(B, rt) ==
    /\ backend \in B
    /\ fabrics = NoFabrics
    /\ selectedFabricId = Null
    /\ loading = TRUE
    /\ error = FALSE
    /\ pollInterval = FALSE
    /\ isOpen = FALSE
    /\ currentFabric = NoFabric
    /\ drawerInterval = FALSE
    /\ route = rt
    /\ reqs = SetToBag({Req("list", Null, FALSE, Null, "mount")})
    /\ settled = FALSE
    /\ conversationId = Null
    /\ messages = <<>>
    /\ selectedLLMId = Null
    /\ isSending = FALSE
    /\ inputValue = ""
    /\ chatReqs = EmptyBag
    /\ sendOutcome = "none"
    /\ conversation = NoConversation
    /\ temperature = DefaultTemperature
    /\ maxTokens = DefaultMaxTokens
    /\ activeWizard = "none"
    /\ wizards = [k \in WizardKinds |-> FreshWizard]
    /\ toast = NoToast

Init == InitWith(FabricSets, "/fabrics")

Next ==
    \/ \E f \in FabricIds : BackendAdvance(f)
    \/ \E f \in FabricIds : BackendFail(f)
    \/ \E r \in BagToSet(reqs) : ServerList(r)
    \/ \E r \in BagToSet(reqs) : ServerBuild(r)
    \/ \E r \in BagToSet(reqs) : ServerDelete(r)
    \/ \E r \in BagToSet(reqs) : DeliverList(r)
    \/ \E r \in BagToSet(reqs) : DeliverBuild(r)
    \/ \E r \in BagToSet(reqs) : DeliverDelete(r)
    \/ ProviderTick
    \/ DrawerTick
    \/ \E r \in Routes : Navigate(r)
    \/ \E f \in FabricIds : handleViewDetails(f)
    \/ \E f \in FabricIds : ListGoToChat(f)
    \/ \E f \in FabricIds : handleConfirmDelete(f)
    \/ onClose
    \/ handleRebuild
    \/ handleGoToChat
    \/ \E id \in FabricIds \cup {Null} : ChatSelectFabric(id)
    \/ \E l \in LLMIds \cup {""} : setLLMId(l)
    \/ \E v \in InputValues : setInputValue(v)
    \/ ClickSend
    \/ PressEnter
    \/ \E c \in Contents : ApiSendMessage(c)
    \/ resetChat
    \/ \E r \in BagToSet(chatReqs) : \E response \in ChatResponses(r) : SendSucceeds(r, response)
    \/ \E r \in BagToSet(chatReqs) : SendFails(r)
    \/ \E v \in TemperatureInputs : setTemperature(v)
    \/ \E v \in TokenInputs : setMaxTokens(v)
    \/ AppUnmount
    \/ \E k \in WizardKinds : openWizard(k)
    \/ \E k \in WizardKinds : handleClose(k)
    \/ \E k \in WizardKinds : \E v \in Names : setName(k, v)
    \/ \E k \in WizardKinds : \E v \in Collections : setChromaCollection(k, v)
    \/ \E k \in WizardKinds : \E v \in Urls : setSourceUrl(k, v)
    \/ \E k \in WizardKinds : \E v \in ChunkInputs : setChunkSize(k, v)
    \/ \E k \in WizardKinds : \E v \in ChunkInputs : setChunkOverlap(k, v)
    \/ \E k \in WizardKinds : ClickCreate(k)
    \/ \E r \in BagToSet(reqs) : ServerCredentials(r)
    \/ \E r \in BagToSet(reqs) : ServerCreate(r)
    \/ \E r \in BagToSet(reqs) : DeliverCredentialsOnOpen(r)
    \/ \E r \in BagToSet(reqs) : DeliverCredentials(r)
    \/ \E r \in BagToSet(reqs) : DeliverCreate(r)
    \/ \E r \in BagToSet(reqs) : WizardDeliverList(r)
    \/ \E r \in BagToSet(reqs) : WizardDeliverBuild(r)

Spec == Init /\ [][Next]_vars

\* The complete relation is checked one component at a time: each
\* specification below keeps the steps of one component and of what it
\* depends on, and starts from the registries that component needs.

\* ---- the registry and its poller, with nobody at the keyboard
NextPoll ==
    \/ \E f \in FabricIds : BackendAdvance(f)
    \/ \E f \in FabricIds : BackendFail(f)
    \/ \E r \in BagToSet(reqs) : ServerList(r)
    \/ \E r \in BagToSet(reqs) : DeliverList(r)
    \/ ProviderTick

PollSpec == Init /\ [][NextPoll]_vars

\* The timer keeps ticking while it is active and every request is answered.
FairPollSpec ==
    /\ PollSpec
    /\ WF_vars(ProviderTick)
    /\ WF_vars(\E r \in BagToSet(reqs) : ServerList(r))
    /\ WF_vars(\E r \in BagToSet(reqs) : DeliverList(r))

\* ---- the detail drawer over a registry of one fabric
SingleFabricRegistries == {b \in FabricSets : b["f2"] = Absent}

NextDrawer ==
    \/ NextPoll
    \/ \E r \in BagToSet(reqs) : ServerBuild(r)
    \/ \E r \in BagToSet(reqs) : DeliverBuild(r)
    \/ DrawerTick
    \/ \E f \in FabricIds : handleViewDetails(f)
    \/ onClose
    \/ handleRebuild

DrawerSpec == InitWith(SingleFabricRegistries, "/available-fabrics") /\ [][NextDrawer]_vars

\* ---- tearing down the drawer, its page and the application
NextTeardown ==
    \/ NextPoll
    \/ DrawerTick
    \/ \E f \in FabricIds : handleViewDetails(f)
    \/ onClose
    \/ \E r \in Routes : Navigate(r)
    \/ handleGoToChat
    \/ AppUnmount

TeardownSpec ==
    InitWith(SingleFabricRegistries, "/available-fabrics") /\ [][NextTeardown]_vars

\* ---- selection and deletion over a registry whose builds have all ended
SettledRegistries ==
    {b \in FabricSets : \A f \in FabricIds : b[f] = Absent \/ ~isBuilding(b[f])}

NextRegistry ==
    \/ \E r \in BagToSet(reqs) : ServerList(r)
    \/ \E r \in BagToSet(reqs) : DeliverList(r)
    \/ \E r \in BagToSet(reqs) : ServerDelete(r)
    \/ \E r \in BagToSet(reqs) : DeliverDelete(r)
    \/ \E r \in Routes : Navigate(r)
    \/ \E f \in FabricIds : ListGoToChat(f)
    \/ \E f \in FabricIds : handleConfirmDelete(f)
    \/ \E id \in FabricIds \cup {Null} : ChatSelectFabric(id)

RegistrySpec == InitWith(SettledRegistries, "/fabrics") /\ [][NextRegistry]_vars

\* ---- the chat session, on the chat page, over a registry of one Ready fabric
ChatRegistries == {[f \in FabricIds |-> IF f = "f1" THEN "Ready" ELSE Absent]}

NextChat ==
    \/ \E r \in BagToSet(reqs) : ServerList(r)
    \/ \E r \in BagToSet(reqs) : DeliverList(r)
    \/ \E id \in FabricIds \cup {Null} : ChatSelectFabric(id)
    \/ \E l \in LLMIds \cup {""} : setLLMId(l)
    \/ \E v \in InputValues : setInputValue(v)
    \/ ClickSend
    \/ PressEnter
    \/ \E c \in Contents : ApiSendMessage(c)
    \/ resetChat
    \/ \E r \in BagToSet(chatReqs) : \E response \in ChatResponses(r) : SendSucceeds(r, response)
    \/ \E r \in BagToSet(chatReqs) : SendFails(r)

ChatSpec == InitWith(ChatRegistries, "/chat") /\ [][NextChat]_vars

\* The creation wizards of the fabrics page over a registry of one Ready
\* fabric; the user opens and fills in a wizard while no handleCreate call
\* is running.
WizardRegistries == {[f \in FabricIds |-> IF f = "f1" THEN Absent ELSE "Ready"]}

NextWizard ==
    \/ \E r \in BagToSet(reqs) : ServerList(r)
    \/ \E r \in BagToSet(reqs) : ServerBuild(r)
    \/ \E r \in BagToSet(reqs) : DeliverList(r)
    \/ \E k \in WizardKinds : ActiveCalls = {} /\ openWizard(k)
    \/ \E k \in WizardKinds : handleClose(k)
    \/ \E k \in WizardKinds : \E v \in Names : ActiveCalls = {} /\ setName(k, v)
    \/ \E k \in WizardKinds : \E v \in Collections : ActiveCalls = {} /\ setChromaCollection(k, v)
    \/ \E k \in WizardKinds : \E v \in Urls : ActiveCalls = {} /\ setSourceUrl(k, v)
    \/ \E k \in WizardKinds : \E v \in ChunkInputs : ActiveCalls = {} /\ setChunkSize(k, v)
    \/ \E k \in WizardKinds : \E v \in ChunkInputs : ActiveCalls = {} /\ setChunkOverlap(k, v)
    \/ \E k \in WizardKinds : ClickCreate(k)
    \/ \E r \in BagToSet(reqs) : ServerCredentials(r)
    \/ \E r \in BagToSet(reqs) : ServerCreate(r)
    \/ \E r \in BagToSet(reqs) : DeliverCredentialsOnOpen(r)
    \/ \E r \in BagToSet(reqs) : DeliverCredentials(r)
    \/ \E r \in BagToSet(reqs) : DeliverCreate(r)
    \/ \E r \in BagToSet(reqs) : WizardDeliverList(r)
    \/ \E r \in BagToSet(reqs) : WizardDeliverBuild(r)

WizardSpec == InitWith(WizardRegistries, "/fabrics") /\ [][NextWizard]_vars

\* The generation settings of the chat page.
NextSettings ==
    \/ \E r \in BagToSet(reqs) : ServerList(r)
    \/ \E r \in BagToSet(reqs) : DeliverList(r)
    \/ \E id \in FabricIds \cup {Null} : ChatSelectFabric(id)
    \/ \E l \in LLMIds \cup {""} : setLLMId(l)
    \/ \E v \in TemperatureInputs : setTemperature(v)
    \/ \E v \in TokenInputs : setMaxTokens(v)

SettingsSpec == InitWith(ChatRegistries, "/chat") /\ [][NextSettings]_vars

\* The chat page while the provider polls: one Ready fabric to chat
\* with, one fabric whose build keeps the 3 s poll running.
PollingRegistries == {[f \in FabricIds |-> IF f = "f1" THEN "Ready" ELSE "Ingesting"]}

NextPollingChat ==
    \/ \E r \in BagToSet(reqs) : ServerList(r)
    \/ \E r \in BagToSet(reqs) : DeliverList(r)
    \/ ProviderTick
    \/ \E id \in FabricIds \cup {Null} : ChatSelectFabric(id)
    \/ \E l \in LLMIds \cup {""} : setLLMId(l)
    \/ \E v \in InputValues : setInputValue(v)
    \/ ClickSend
    \/ \E r \in BagToSet(chatReqs) : \E response \in ChatResponses(r) : SendSucceeds(r, response)
    \/ \E r \in BagToSet(chatReqs) : SendFails(r)

PollingChatSpec == InitWith(PollingRegistries, "/chat") /\ [][NextPollingChat]_vars

\* The three mutating calls of FabricProvider: createNewFabric and
\* triggerBuild as the generic wizard calls them, handleDeleteFabric as the
\* list's confirmation dialog calls it; the user opens and fills in the
\* wizard while no handleCreate call is running.
NextMutation ==
    \/ \E r \in BagToSet(reqs) : ServerList(r)
    \/ \E r \in BagToSet(reqs) : ServerCreate(r)
    \/ \E r \in BagToSet(reqs) : ServerBuild(r)
    \/ \E r \in BagToSet(reqs) : ServerDelete(r)
    \/ \E r \in BagToSet(reqs) : DeliverList(r)
    \/ \E r \in BagToSet(reqs) : DeliverCreate(r)
    \/ \E r \in BagToSet(reqs) : WizardDeliverList(r)
    \/ \E r \in BagToSet(reqs) : WizardDeliverBuild(r)
    \/ \E r \in BagToSet(reqs) : DeliverDelete(r)
    \/ \E r \in Routes : Navigate(r)
    \/ \E f \in FabricIds : ListGoToChat(f)
    \/ \E f \in FabricIds : handleConfirmDelete(f)
    \/ ActiveCalls = {} /\ openWizard("generic")
    \/ \E v \in Names : ActiveCalls = {} /\ setName("generic", v)
    \/ \E v \in Collections : ActiveCalls = {} /\ setChromaCollection("generic", v)
    \/ ClickCreate("generic")

MutationSpec == InitWith(WizardRegistries, "/fabrics") /\ [][NextMutation]_vars

\* ================================================================ claims

\* ------------------------------------------------------------------- C1
\* C1: once a list() response has delivered a fabric set in which nothing
\* is building, the provider's 3 s timer and the drawer's 2 s timer are
\* cancelled: neither issues a further list() request until a new build is
\* triggered.
C1_NoPollOnceSettled == [][settled => ~(ProviderTick \/ DrawerTick)]_vars

\* ------------------------------------------------------------------- C2
\* C2: in every state the provider's poll timer is active if and only if
\* the client's fabric set holds a fabric whose status is not Ready, Error
\* or Draft; a set of only Draft/Ready/Error fabrics, or an empty set, has
\* no active timer.
C2_TimerIffBuilding ==
    pollInterval <=>
        \E f \in FabricIds : fabrics[f] # Absent /\ fabrics[f] \notin {"Ready", "Error", "Draft"}

\* The timer runs over a set that also holds a Draft fabric.
C2_Witness ==
    /\ pollInterval
    /\ \E f, g \in FabricIds : fabrics[f] = "Draft" /\ fabrics[g] = "Vectorizing"

\* ------------------------------------------------------------------- C3
\* C3: no terminal state is missed: a fabric the client shows as building
\* that has reached Ready or Error on the backend is eventually shown with
\* that status, given that ticks keep firing and every request is answered,
\* even when a poll's list() fails.
C3_NoTerminalStateMissed ==
    \A f \in FabricIds :
        (f \in buildingFabrics(fabrics) /\ backend[f] \in {"Ready", "Error"})
            ~> (fabrics[f] = backend[f])

\* ------------------------------------------------------------------- C4
\* C4: at most one send is in flight per chat session: while isSending is
\* true, neither the Send button nor the Enter key starts a second send.
C4_OneSendInFlight == [][isSending => ~(ClickSend \/ PressEnter)]_vars

\* ------------------------------------------------------------------- C5
\* C5: when the request of a sendMessage call fails, the log becomes the log
\* the call read, then its user message, then exactly one synthetic error
\* message (pre-send length + 2), and the error is re-thrown.
C5_FailedSendLog ==
    [][\A r \in BagToSet(chatReqs) :
          SendFails(r) =>
              /\ messages' = r.pre \o <<[role |-> "user", content |-> r.content], errorMessage>>
              /\ Len(messages') = Len(r.pre) + 2
              /\ sendOutcome' = "rejected"]_vars

\* A send on an empty log has failed.
C5_Witness ==
    /\ sendOutcome = "rejected"
    /\ messages = <<[role |-> "user", content |-> "q"], errorMessage>>

\* ------------------------------------------------------------------- C6
\* C6: when the request of a sendMessage call succeeds, the log becomes the
\* message list the backend returned, whatever the local log was, and
\* conversationId becomes the conversationId the backend returned.
C6_SuccessReplacesLog ==
    [][\A r \in BagToSet(chatReqs) : \A response \in ChatResponses(r) :
          SendSucceeds(r, response) =>
              /\ messages' = response.messages
              /\ conversationId' = response.conversationId]_vars

\* A send has succeeded with a response that held the assistant turn only:
\* the optimistic user message is gone.
C6_Witness ==
    /\ sendOutcome = "resolved"
    /\ messages = <<assistantMessage>>
    /\ conversationId \in ConversationIds

\* ------------------------------------------------------------------- C7
\* C7: sendMessage called while no fabric is selected or no LLM is chosen
\* fails before any request is posted and leaves the log, isSending and
\* conversationId unchanged.
C7_PreconditionFailure ==
    [][\A c \in Contents :
          ((selectedFabricId = Null \/ selectedLLMId \in {Null, ""}) /\ ApiSendMessage(c)) =>
              /\ sendOutcome' = "PreconditionError"
              /\ chatReqs' = chatReqs
              /\ messages' = messages
              /\ isSending' = isSending
              /\ conversationId' = conversationId]_vars

\* sendMessage has failed its precondition with a fabric selected and the
\* LLM select on its empty option.
C7_Witness ==
    /\ sendOutcome = "PreconditionError"
    /\ selectedFabricId \in FabricIds
    /\ selectedLLMId = ""

\* ------------------------------------------------------------------- C8
\* C8: when deleteFabric(id) completes successfully the selection is null if
\* id was selected and unchanged otherwise, and it does not reference id,
\* whatever selectFabric calls happened while the delete was in flight.
C8_NoDanglingSelection ==
    [][\A r \in BagToSet(reqs) :
          (DeliverDelete(r) /\ r.result = "ok") =>
              /\ selectedFabricId' = (IF selectedFabricId = r.id THEN Null ELSE selectedFabricId)
              /\ selectedFabricId' # r.id]_vars

\* ------------------------------------------------------------------- C9
\* C9: resetChat, in any state of the session and also while a send is in
\* flight, yields an empty log, a null conversationId and isSending false.
C9_ResetYieldsIdle ==
    [][resetChat => (messages' = <<>> /\ conversationId' = Null /\ ~isSending')]_vars

\* ------------------------------------------------------------------ C10
\* C10: conversationId is null until the first successful response; once
\* non-null it keeps its value across later sends and changes only by
\* resetChat, which nulls it and clears the log.
C10_ConversationIdStable ==
    [][/\ (conversationId = Null /\ conversationId' # Null) =>
              \E r \in BagToSet(chatReqs) : \E response \in ChatResponses(r) :
                  SendSucceeds(r, response)
       /\ (conversationId # Null /\ conversationId' # conversationId) =>
              (resetChat /\ conversationId' = Null /\ messages' = <<>>)]_vars

\* ------------------------------------------------------------------ C11
\* The position of a status in the build order.
StageRank(status) ==
    CASE status = "Draft" -> 0
      [] status = "Ingesting" -> 1
      [] status = "Chunking" -> 2
      [] status = "Vectorizing" -> 3
      [] status = "GraphBuilding" -> 4
      [] status = "Ready" -> 5
      [] status = "Error" -> 6

\* From s to t is a move forward along the build order, or from a
\* non-terminal status to Error.
ForwardStep(s, t) == s \notin {"Ready", "Error"} /\ StageRank(s) < StageRank(t)

\* C11: for every fabric, two successive statuses the client's fabric set
\* shows are equal or a step forward along Draft, Ingesting, Chunking,
\* Vectorizing, GraphBuilding, Ready, or a step from a non-terminal status to
\* Error: no backward step and no step out of Ready or Error is observed,
\* also when overlapping list() responses arrive out of order.
C11_StatusMovesForward ==
    [][\A f \in FabricIds :
          (fabrics[f] # Absent /\ fabrics'[f] # Absent /\ fabrics'[f] # fabrics[f]) =>
              ForwardStep(fabrics[f], fabrics'[f])]_vars

\* ------------------------------------------------------------------ C12
\* The list() requests in flight.
ListCount == BagCardinality([r \in {x \in BagToSet(reqs) : x.op = "list"} |-> reqs[r]])

\* This step consumes the answer r of a mutation request.
Consumes(r) ==
    /\ r.op \in {"create", "build", "delete"}
    /\ r.result # "pending"
    /\ CopiesIn(r, reqs') = CopiesIn(r, reqs) - 1

\* C12: the step in which createNewFabric, triggerBuild or handleDeleteFabric
\* receives a successful answer posts one list() request, which the call
\* then awaits, and leaves the fabric set as it is; the step in which one of
\* them receives a failure posts no list() request (the one ServiceNowWizard
\* posts from its own catch block aside) and leaves the fabric set and the
\* selection as they are.
C12_RefetchAfterMutation ==
    [][\A r \in BagToSet(reqs) :
          Consumes(r) =>
              /\ fabrics' = fabrics
              /\ r.result = "ok" =>
                     /\ ListCount' = ListCount + 1
                     /\ \E l \in BagToSet(reqs') :
                            /\ l.op = "list" /\ l.caller = r.caller /\ l.result = "pending"
                            /\ CopiesIn(l, reqs') = CopiesIn(l, reqs) + 1
              /\ r.result = "err" =>
                     /\ selectedFabricId' = selectedFabricId
                     /\ ListCount' = ListCount
                            \/ (r.caller = "servicenow" /\ wizards'[r.caller].pc = "failReload")]_vars

\* A create, a build and a delete have been answered, with both outcomes
\* among them, and the answers are about to be consumed.
C12_Witness ==
    \E r, d \in BagToSet(reqs) :
        /\ r.op = "build" /\ r.result = "err"
        /\ d.op = "delete" /\ d.result = "ok" /\ d.sel = d.id

\* ------------------------------------------------------------------ C13
\* This step delivers the answer of a list() request to reloadFabrics.
ListDelivered ==
    LET answered(q) ==
            BagCardinality([r \in {x \in BagToSet(q) : x.op = "list" /\ x.result # "pending"}
                               |-> q[r]])
    IN  answered(reqs') < answered(reqs)

\* C13: once a failed list() has emptied the fabric set and set the error
\* flag, the set stays marked: as long as no further list() answer is
\* delivered, the error flag stays set, or the loading flag shows that a
\* reload is under way.
C13_EmptyByErrorIsMarked ==
    [][(fabrics = NoFabrics /\ error /\ ~ListDelivered) => (error' \/ loading')]_vars

\* ------------------------------------------------------------------ C14
\* C14: isSending is true for as long as a request of sendMessage is
\* pending, and the step in which a request is answered, with a response or
\* with a failure, leaves isSending false.
C14_SendingWhilePending ==
    [][/\ chatReqs # EmptyBag => isSending
       /\ (\E r \in BagToSet(chatReqs) : CopiesIn(r, chatReqs') < CopiesIn(r, chatReqs)) =>
              ~isSending']_vars

\* ------------------------------------------------------------------ C15
\* The handleCreate call of wizard k ends in this step, after triggerBuild
\* has failed for the fabric it created.
EndsAfterBuildFailure(k) ==
    /\ wizards[k].pc # "idle"
    /\ wizards'[k].pc = "idle"
    /\ \/ wizards[k].pc = "failReload"
       \/ /\ wizards[k].pc = "build"
          /\ \E r \in BagToSet(reqs) :
                r.op = "build" /\ r.caller = k /\ r.result = "err" /\ Consumes(r)

\* C15: in each of the three wizards, a handleCreate call whose create
\* succeeded and whose triggerBuild failed ends with the toast that the
\* fabric was created but its build failed, which is not the toast of a
\* failed create, and with the created fabric in the fabric set.
C15_BuildFailureDistinct ==
    [][\A k \in WizardKinds :
          EndsAfterBuildFailure(k) =>
              /\ toast' = Toast(k, BuildFailedToast)
              /\ toast'.text # catchToast(k, createError(ErrorMessage))
              /\ fabrics'[wizards[k].id] # Absent]_vars

\* ------------------------------------------------------------------ C16
\* The payloads of the POST /api/fabrics requests in flight.
CreatePayloads ==
    {wizards[k].payload : k \in {c \in WizardKinds : wizards[c].pc = "create"}}

\* C16: every create request a wizard has in flight carries a chunkSize and
\* a chunkOverlap that are positive, with chunkOverlap < chunkSize, whatever
\* the user entered in the chunking inputs.
C16_ChunkingValid ==
    \A p \in CreatePayloads :
        p.chunkSize > 0 /\ p.chunkOverlap > 0 /\ p.chunkOverlap < p.chunkSize

\* ------------------------------------------------------------------ C17
\* C17: a handleCreate call that got past its local check, and so every
\* POST /api/fabrics in flight, carries a non-empty name and a non-empty
\* collection name: with either field empty no request is issued.
C17_CreateCarriesNameAndCollection ==
    \A k \in WizardKinds :
        wizards[k].pc \in {"credentials", "create"} =>
            wizards[k].payload.name # "" /\ wizards[k].payload.chromaCollection # ""

\* A POST /api/fabrics is in flight for a wizard whose fields handleClose
\* has emptied since.
C17_Witness ==
    \E k \in WizardKinds :
        /\ wizards[k].pc = "create"
        /\ wizards[k].name = ""
        /\ \E r \in BagToSet(reqs) : r.op = "create" /\ r.caller = k

\* ------------------------------------------------------------------ C18
\* C18: every /api/chat request is posted for a fabric that the client's
\* fabric set shows as Ready in the state it is posted from.
C18_SendOnlyToReady ==
    [][\A r \in BagToSet(chatReqs') :
          CopiesIn(r, chatReqs') > CopiesIn(r, chatReqs) =>
              r.fabricId \in readyFabrics(fabrics)]_vars

\* ------------------------------------------------------------------ C19
\* C19: a request posted while a conversation is under way (a request has
\* been posted since construction or the last resetChat) carries the
\* fabricId and the llmId of the first request of that conversation.
C19_ConversationKeepsFabricAndLLM ==
    [][\A r \in BagToSet(chatReqs') :
          (CopiesIn(r, chatReqs') > CopiesIn(r, chatReqs) /\ conversation # NoConversation) =>
              (r.fabricId = conversation.fabricId /\ r.llmId = conversation.llmId)]_vars

\* ------------------------------------------------------------------ C20
\* C20: in every state maxTokens is a positive integer and temperature
\* lies between 0 and 1 (0 and 10 tenths), whatever was entered through the
\* two controls of the chat page.
C20_SettingsInRange ==
    /\ maxTokens \in Nat \ {0}
    /\ temperature \in 0..10

\* ------------------------------------------------------------------ C21
\* The answer of a list() request is on its way that is older than the
\* fabric set shown: it holds an earlier status for a fabric of the set.
StaleAnswerPending ==
    \E r \in BagToSet(reqs) : \E f \in FabricIds :
        /\ r.op = "list" /\ r.result = "ok"
        /\ fabrics[f] # Absent /\ r.data[f] # Absent
        /\ StageRank(r.data[f]) < StageRank(fabrics[f])

\* C21: a stale status is transient: when a list() answer older than the
\* fabric set shown is still to be delivered (and will overwrite the set),
\* the fabric set eventually equals the backend's registry again, given
\* that ticks keep firing and every request is answered, with no user
\* action.
C21_StaleStatusTransient == StaleAnswerPending ~> (fabrics = backend)

\* ------------------------------------------------------------------ C22
\* C22: after every list() answer delivered while the detail drawer is open
\* on a fabric that the delivered fabric set holds, the status the drawer
\* displays, and decides its polling on, is that fabric's status in the
\* delivered set.
C22_DrawerShowsFetchedStatus ==
    [][(ListDelivered /\ isOpen' /\ currentFabric' # NoFabric
            /\ fabrics'[currentFabric'.id] # Absent) =>
          currentFabric'.status = fabrics'[currentFabric'.id]]_vars

\* ------------------------------------------------------------------ C23
\* The requests in flight that the timer set last issued.
IssuedBy(timer) ==
    BagCardinality([r \in {x \in BagToSet(reqs) : x.caller = timer} |-> reqs[r]])

\* C23: of the list() requests that one timer issued, the provider's 3 s
\* timer or the drawer's 2 s timer, at most one is in flight at any time.
C23_OnePollInFlightPerTimer ==
    IssuedBy("interval") <= 1 /\ IssuedBy("drawerInterval") <= 1

\* ------------------------------------------------------------------ C24
\* C24: a step that leaves the drawer closed (onClose, or its page is
\* unmounted) leaves the drawer's timer cancelled, and a step that leaves
\* the application unmounted leaves the provider's timer cancelled, whatever
\* is building; no tick of the drawer's timer is taken with the drawer
\* closed and no tick of the provider's timer with the provider unmounted.
C24_TimersCancelledOnTeardown ==
    [][/\ ~isOpen' => ~drawerInterval'
       /\ route' = Unmounted => ~pollInterval'
       /\ DrawerTick => isOpen
       /\ ProviderTick => route # Unmounted]_vars

\* The drawer has been closed with a request of its timer still unanswered
\* and the build still running.
C24_Witness ==
    /\ ~isOpen
    /\ buildingFabrics(backend) # {}
    /\ \E r \in BagToSet(reqs) : r.caller = "cleared drawerInterval" /\ r.result = "pending"

\* ------------------------------------------------------------------ C25
\* The answered list() requests of q issued with that silent argument.
Answered(q, silent) ==
    BagCardinality([r \in {x \in BagToSet(q) :
                               x.op = "list" /\ x.result # "pending" /\ x.silent = silent}
                       |-> q[r]])

\* C25: the step in which a timer's tick starts a silent list() and the
\* step in which the answer of a silent list(), a response or a failure, is
\* delivered leave the loading flag as it is.
C25_SilentKeepsLoading ==
    [][/\ (ProviderTick \/ DrawerTick) => loading' = loading
       /\ Answered(reqs', TRUE) < Answered(reqs, TRUE) => loading' = loading]_vars

\* The failure of a silent list() is about to be delivered while a
\* non-silent reload has loading set.
C25_Witness ==
    /\ loading
    /\ \E r \in BagToSet(reqs) : r.op = "list" /\ r.silent /\ r.result = "err"

\* ------------------------------------------------------------------ C26
\* C26: in every reachable state isSending is true exactly when at least
\* one request of sendMessage is in flight.
C26_SendingIffInFlight == isSending <=> ChatInFlight >= 1

\* ------------------------------------------------------------------ C27
\* C27: loading is true in every state in which a non-silent list() is in
\* flight, also when several non-silent reloads overlap.
C27_LoadingWhileReloading ==
    (\E r \in BagToSet(reqs) : r.op = "list" /\ ~r.silent) => loading

\* ------------------------------------------------------------------ C28
\* C28: from the empty log and null conversationId that resetChat leaves,
\* every step other than a call of sendMessage keeps the log empty and
\* conversationId null; the answer of a send that was in flight at
\* resetChat is such a step.
C28_ResetNotRepopulated ==
    [][(/\ messages = <<>> /\ conversationId = Null
        /\ ~(handleSend \/ \E c \in Contents : ApiSendMessage(c))) =>
          (messages' = <<>> /\ conversationId' = Null)]_vars

\* ------------------------------------------------------------------ C29
\* The failure of the list() that the mutating call of caller k awaits is
\* delivered in this step.
ReloadFails(k) ==
    \E r \in BagToSet(reqs) :
        /\ r.op = "list" /\ r.caller = k /\ r.result = "err"
        /\ CopiesIn(r, reqs') < CopiesIn(r, reqs)

\* C29: when the list() after a successful mutation fails, the fabric set
\* becomes empty and the error flag is set (until a further reload of the
\* same call resets it), and the call completes as a success: after
\* createNewFabric the wizard goes on to build the fabric that was returned,
\* after triggerBuild it goes on to its success path, after deleteFabric the
\* list shows its success toast.
C29_OutcomeByMutationAlone ==
    [][/\ \A k \in WizardKinds :
              ReloadFails(k) =>
                  /\ fabrics' = NoFabrics
                  /\ error' \/ \E l \in BagToSet(reqs') :
                                   l.op = "list" /\ l.caller = k /\ l.result = "pending"
                  /\ wizards[k].pc = "createReload" =>
                         /\ wizards'[k].pc = "build"
                         /\ \E b \in BagToSet(reqs') :
                                b.op = "build" /\ b.caller = k /\ b.id = wizards[k].id
                                    /\ b.id # Null
                  /\ wizards[k].pc = "buildReload" =>
                         \/ wizards'[k].pc = "finalReload"
                         \/ wizards'[k].pc = "idle" /\ toast' = Toast(k, successToast(k))
       /\ ReloadFails("deleteFabric") =>
              /\ fabrics' = NoFabrics
              /\ error'
              /\ toast' = Toast("deleteFabric", DeletedToast)]_vars

\* A failed reload has emptied the set and set the error flag, and the
\* call it belonged to has ended with its success toast.
C29_Witness ==
    /\ fabrics = NoFabrics /\ error
    /\ toast \in {Toast("generic", successToast("generic")), Toast("deleteFabric", DeletedToast)}
    /\ backend # NoFabrics

\* ------------------------------------------------------------------ C30
\* C30: when the handleCreate call of a wizard ends with the wizard still
\* open and its required fields still filled in, so that Create can be
\* pressed again, the call has created no fabric on the backend.
C30_OpenAfterCreateMeansNoFabric ==
    [][\A k \in WizardKinds :
          (/\ wizards[k].pc # "idle" /\ wizards'[k].pc = "idle"
           /\ activeWizard' = k
           /\ requiredFilled(k)') =>
              wizards[k].id = Null]_vars

====
